---------------------------- MODULE Spec2Model ----------------------------
(***************************************************************************)
(* A model of the three request dispatchers of the repository              *)
(*   src/worker.js          (HTML + CSS rewriting, in-place sanitizer)     *)
(*   src/unnamed/part_000   (HTML rewriting, sanitizeHeaders, opaque guard)*)
(*   src/index.js           (plain relay)                                  *)
(* and of the pure functions they are built from.  JavaScript strings are  *)
(* sequences of one-character strings, so that encoding, decoding, prefix  *)
(* tests and the regular expressions are computed, not assumed.            *)
(***************************************************************************)
EXTENDS Integers, Sequences, FiniteSets, TLC

VARIABLES
    variant,    \* which of the three source files serves the request
    pc,         \* position of the handler / of the pure-function run
    request,    \* the incoming request: origin, pathname, method
    target,     \* the decoded target (a string), once decoded
    fetches,    \* outbound fetches issued for the request: <<target, init>>
    upstream,   \* what the transport returned (or the error it threw)
    response,   \* the Response the handler returned
    u,          \* codec run: the absolute URL that is encoded
    link,       \* codec run: the proxied path written for u
    doc,        \* rewrite run: the element or CSS text given to the rewriter
    out         \* rewrite run: what the rewriter produced

vars == <<variant, pc, request, target, fetches, upstream, response,
          u, link, doc, out>>

None == <<"none">>

---------------------------------------------------------------------------
(* Strings                                                                 *)

\* The printable ASCII characters, in code order starting at 32 (code 96, the
\* grave accent, is spelled out: the character cannot be written in a string).
Ascii ==
    <<" ", "!", "\"", "#", "$", "%", "&", "'", "(", ")", "*", "+", ",", "-",
      ".", "/", "0", "1", "2", "3", "4", "5", "6", "7", "8", "9", ":", ";",
      "<", "=", ">", "?", "@", "A", "B", "C", "D", "E", "F", "G", "H", "I",
      "J", "K", "L", "M", "N", "O", "P", "Q", "R", "S", "T", "U", "V", "W",
      "X", "Y", "Z", "[", "\\", "]", "^", "_", "<grave>", "a", "b", "c", "d", "e",
      "f", "g", "h", "i", "j", "k", "l", "m", "n", "o", "p", "q", "r", "s",
      "t", "u", "v", "w", "x", "y", "z", "{", "|", "}", "~">>

Chars == {Ascii[i] : i \in 1..Len(Ascii)}

CharCode == [c \in Chars |-> 31 + (CHOOSE i \in 1..Len(Ascii) : Ascii[i] = c)]

CharOf(n) == Ascii[n - 31]

IsUpper(c) == CharCode[c] >= 65 /\ CharCode[c] <= 90
IsLower(c) == CharCode[c] >= 97 /\ CharCode[c] <= 122
IsDigit(c) == CharCode[c] >= 48 /\ CharCode[c] <= 57
IsAlpha(c) == IsUpper(c) \/ IsLower(c)

\* String.prototype.toLowerCase, one character
LowerChar(c) == IF IsUpper(c) THEN CharOf(CharCode[c] + 32) ELSE c

\* String.prototype.toLowerCase
toLowerCase(s) == [i \in 1..Len(s) |-> LowerChar(s[i])]

\* String.prototype.slice(from) with a 0-based index
slice(s, from) == IF from >= Len(s) THEN <<>> ELSE SubSeq(s, from + 1, Len(s))

\* s.startsWith(p, at) with a 0-based position
startsWithAt(s, p, at) ==
    /\ at + Len(p) <= Len(s)
    /\ \A i \in 1..Len(p) : s[at + i] = p[i]

\* String.prototype.startsWith
startsWith(s, p) == startsWithAt(s, p, 0)

\* String.prototype.indexOf: the 0-based index of the first occurrence, or -1
indexOf(s, p) ==
    IF \E at \in 0..Len(s) : startsWithAt(s, p, at)
    THEN CHOOSE at \in 0..Len(s) :
            /\ startsWithAt(s, p, at)
            /\ \A b \in 0..(at - 1) : ~startsWithAt(s, p, b)
    ELSE -1

\* String.prototype.includes
includes(s, p) == indexOf(s, p) >= 0

ReplaceAt(s, at, len, r) ==
    IF at < 0 THEN s ELSE SubSeq(s, 1, at) \o r \o slice(s, at + len)

\* String.prototype.replace(pattern, replacement) with a string pattern: the
\* first occurrence only.  (No replacement of this program holds a "$".)
replaceFirst(s, p, r) == ReplaceAt(s, indexOf(s, p), Len(p), r)

RECURSIVE Concat(_)
Concat(ss) == IF ss = <<>> THEN <<>> ELSE Head(ss) \o Concat(Tail(ss))

---------------------------------------------------------------------------
(* Proxy address codec                                                     *)

ROUTE_PREFIX == <<"/", "s", "e", "r", "v", "i", "c", "e", "/">>

HexDigits == <<"0", "1", "2", "3", "4", "5", "6", "7", "8", "9",
               "A", "B", "C", "D", "E", "F">>

\* The characters encodeURI leaves alone: those of encodeURIComponent and
\* ; / ? : @ & = + $ , #
UriUnreservedOfEncodeURI(c) ==
    \/ IsAlpha(c) \/ IsDigit(c)
    \/ c \in {"-", "_", ".", "!", "~", "*", "'", "(", ")",
              ";", "/", "?", ":", "@", "&", "=", "+", "$", ",", "#"}

\* The characters encodeURIComponent leaves alone: A-Z a-z 0-9 - _ . ! ~ * ' ( )
UriUnreserved(c) ==
    IsAlpha(c) \/ IsDigit(c) \/ c \in {"-", "_", ".", "!", "~", "*", "'", "(", ")"}

EncodeChar(c) ==
    IF UriUnreserved(c) THEN <<c>>
    ELSE <<"%", HexDigits[(CharCode[c] \div 16) + 1], HexDigits[(CharCode[c] % 16) + 1]>>

\* encodeURIComponent over ASCII text
encodeURIComponent(s) == Concat([i \in 1..Len(s) |-> EncodeChar(s[i])])

IsHex(c) == IsDigit(c) \/ LowerChar(c) \in {"a", "b", "c", "d", "e", "f"}

HexValue(c) == IF IsDigit(c) THEN CharCode[c] - 48 ELSE CharCode[LowerChar(c)] - 87

\* decodeURIComponent over ASCII text.  The result is <<"ok", text>>, or
\* <<"URIError">> when a "%" is not followed by two hexadecimal digits or the
\* escape is not the code of a one-byte (ASCII) character.
RECURSIVE DecodeFrom(_, _, _)
DecodeFrom(s, i, acc) ==
    IF i > Len(s) THEN <<"ok", acc>>
    ELSE IF s[i] # "%" THEN DecodeFrom(s, i + 1, Append(acc, s[i]))
    ELSE IF i + 2 > Len(s) \/ ~IsHex(s[i + 1]) \/ ~IsHex(s[i + 2]) THEN <<"URIError">>
    ELSE LET n == 16 * HexValue(s[i + 1]) + HexValue(s[i + 2])
         IN  IF n < 32 \/ n > 126 THEN <<"URIError">>
             ELSE DecodeFrom(s, i + 3, Append(acc, CharOf(n)))

decodeURIComponent(s) == DecodeFrom(s, 1, <<>>)

\* src/unnamed/part_000: encodeTarget
encodeTarget(t) == encodeURIComponent(t)

\* toProxiedPath of worker.js and of part_000 (the same function)
toProxiedPath(t) == ROUTE_PREFIX \o encodeTarget(t)

---------------------------------------------------------------------------
(* URL parsing: new URL(input) and new URL(input, base)                    *)
(* The platform's parser, as far as the program's inputs exercise it:      *)
(* surrounding spaces are trimmed, the scheme and the host are lower-cased,*)
(* a default port is dropped, an empty path of an http(s) URL becomes "/", *)
(* characters the serializer escapes are escaped, a URL of another scheme  *)
(* keeps its text after the colon, and a reference without a scheme is     *)
(* resolved against the base.  Dot segments and back-slashes are not       *)
(* modelled; no input of the model holds them.                             *)

Http == <<"h", "t", "t", "p">>
Https == <<"h", "t", "t", "p", "s">>
SpecialSchemes == {Http, Https}

DefaultPort(scheme) == IF scheme = Http THEN <<"8", "0">> ELSE <<"4", "4", "3">>

RECURSIVE TrimLeft(_)
TrimLeft(s) == IF s # <<>> /\ Head(s) = " " THEN TrimLeft(Tail(s)) ELSE s

RECURSIVE TrimRight(_)
TrimRight(s) ==
    IF s # <<>> /\ s[Len(s)] = " " THEN TrimRight(SubSeq(s, 1, Len(s) - 1)) ELSE s

\* String.prototype.trim, and the URL parser's stripping of surrounding spaces
trim(s) == TrimRight(TrimLeft(s))

\* The 0-based index of the first character of s that belongs to cs, or Len(s)
FirstOf(s, cs) ==
    IF \E i \in 1..Len(s) : s[i] \in cs
    THEN (CHOOSE i \in 1..Len(s) : s[i] \in cs /\ \A j \in 1..(i - 1) : s[j] \notin cs) - 1
    ELSE Len(s)

\* The length of the scheme of s (the text before its first colon), or 0 when
\* s does not begin with a scheme
SchemeLen(s) ==
    LET n == FirstOf(s, {":"})
    IN  IF /\ n >= 1 /\ n < Len(s) /\ IsAlpha(s[1])
           /\ \A i \in 1..n : IsAlpha(s[i]) \/ IsDigit(s[i]) \/ s[i] \in {"+", "-", "."}
        THEN n ELSE 0

RECURSIVE StripSlashes(_)
StripSlashes(s) == IF s # <<>> /\ Head(s) = "/" THEN StripSlashes(Tail(s)) ELSE s

PathEscapes == {" ", "\"", "<", ">", "{", "}"}
QueryEscapes == {" ", "\"", "<", ">", "'", "#"}

EscapeIn(s, cs) ==
    Concat([i \in 1..Len(s) |->
        IF s[i] \in cs
        THEN <<"%", HexDigits[(CharCode[s[i]] \div 16) + 1], HexDigits[(CharCode[s[i]] % 16) + 1]>>
        ELSE <<s[i]>>])

HostForbidden == {" ", "#", "%", "/", "<", ">", "?", "@", "[", "\\", "]", "^", "|"}

TypeError == [ok |-> FALSE]

HostOf(scheme, name, port) ==
    IF name = <<>> \/ \E i \in 1..Len(name) : name[i] \in HostForbidden
    THEN TypeError
    ELSE IF \E i \in 1..Len(port) : ~IsDigit(port[i]) THEN TypeError
    ELSE [ok |-> TRUE,
          host |-> IF port = <<>> \/ port = DefaultPort(scheme)
                   THEN name ELSE name \o <<":">> \o port]

\* The host (with its port) of an http(s) URL: lower-cased, the default port
\* dropped; TypeError when it is empty or holds a forbidden character
ParseHost(scheme, auth) ==
    HostOf(scheme, toLowerCase(SubSeq(auth, 1, FirstOf(auth, {":"}))),
           slice(auth, FirstOf(auth, {":"}) + 1))

SpecialUrl(scheme, h, path, search) ==
    IF ~h.ok THEN TypeError
    ELSE [ok |-> TRUE, scheme |-> scheme, special |-> TRUE, host |-> h.host,
          pathname |-> IF path = <<>> THEN <<"/">> ELSE EscapeIn(path, PathEscapes),
          search |-> EscapeIn(search, QueryEscapes \ {"#"})]

\* authority: the text up to the first "/", "?" or "#"; tail: the rest
SpecialParts(scheme, authority, tail) ==
    SpecialUrl(scheme, ParseHost(scheme, authority),
               SubSeq(tail, 1, FirstOf(tail, {"?", "#"})),
               slice(tail, FirstOf(tail, {"?", "#"})))

SpecialFrom(scheme, r) ==
    SpecialParts(scheme, SubSeq(r, 1, FirstOf(r, {"/", "?", "#"})),
                 slice(r, FirstOf(r, {"/", "?", "#"})))

\* An http(s) URL from its scheme and the text after "scheme:"
ParseSpecial(scheme, rest) == SpecialFrom(scheme, StripSlashes(rest))

\* The directory of a path: the path up to and including its last "/"
DirOf(pathname) ==
    SubSeq(pathname, 1,
           CHOOSE i \in 1..Len(pathname) :
               /\ pathname[i] = "/"
               /\ \A j \in (i + 1)..Len(pathname) : pathname[j] # "/")

\* A reference without a scheme: ref is its path, rest its query and fragment
ParseRelative(ref, rest, base) ==
    [ok |-> TRUE, scheme |-> base.scheme, special |-> TRUE, host |-> base.host,
     pathname |-> EscapeIn(IF ref = <<>> THEN base.pathname
                           ELSE IF Head(ref) = "/" THEN ref
                           ELSE DirOf(base.pathname) \o ref, PathEscapes),
     search |-> IF rest = <<>> THEN (IF ref = <<>> THEN base.search ELSE <<>>)
                ELSE EscapeIn(rest, QueryEscapes \ {"#"})]

ParseAbsolute(scheme, rest) ==
    IF scheme \in SpecialSchemes THEN ParseSpecial(scheme, rest)
    ELSE [ok |-> TRUE, scheme |-> scheme, special |-> FALSE, host |-> <<>>,
          pathname |-> rest, search |-> <<>>]

ParseTrimmed(s, base) ==
    IF SchemeLen(s) > 0
    THEN ParseAbsolute(toLowerCase(SubSeq(s, 1, SchemeLen(s))), slice(s, SchemeLen(s) + 1))
    ELSE IF ~base.ok THEN TypeError
    ELSE IF startsWith(s, <<"/", "/">>) THEN ParseSpecial(base.scheme, s)
    ELSE ParseRelative(SubSeq(s, 1, FirstOf(s, {"?", "#"})), slice(s, FirstOf(s, {"?", "#"})),
                       base)

\* new URL(input) when base is TypeError (no base), new URL(input, base) when
\* base is a parsed http(s) URL
ParseUrl(input, base) == ParseTrimmed(trim(input), base)

\* URL.prototype.toString / href
Href(url) ==
    IF url.special
    THEN url.scheme \o <<":", "/", "/">> \o url.host \o url.pathname \o url.search
    ELSE url.scheme \o <<":">> \o url.pathname

\* URL.prototype.origin
OriginOf(url) ==
    IF url.special THEN url.scheme \o <<":", "/", "/">> \o url.host
    ELSE <<"n", "u", "l", "l">>

BaseUrl(b) == IF b.ok /\ b.special THEN b ELSE TypeError

HrefOr(r, rel) == IF r.ok THEN Href(r) ELSE rel

\* resolveUrl(base, rel) of worker.js and of part_000: new URL(rel, base)
\* .toString(), or rel when that throws; base is a string
resolveUrl(base, rel) == HrefOr(ParseUrl(rel, BaseUrl(ParseUrl(base, TypeError))), rel)

---------------------------------------------------------------------------
(* The url(...) pattern of the style handler and of rewriteCss             *)

UrlOpen == <<"u", "r", "l", "(">>
DataScheme == <<"d", "a", "t", "a", ":">>

MatchUrlRun(s, at, q, start, run) ==
    IF run >= 1 /\ startsWithAt(s, q \o <<")">>, start + run)
    THEN [ok |-> TRUE, ref |-> SubSeq(s, start + 1, start + run),
          len |-> start + run + Len(q) + 1 - at]
    ELSE [ok |-> FALSE]

MatchUrlQuoted(s, at, q) ==
    MatchUrlRun(s, at, q, at + Len(UrlOpen) + Len(q),
                FirstOf(slice(s, at + Len(UrlOpen) + Len(q)), {"'", "\"", ")"}))

\* /url\((['"]?)([^'")]+)\1\)/ tried at the 0-based position at of s: after
\* "url(" an optional quote, a longest non-empty run of characters that are
\* neither a quote nor ")", the same quote again (or none), and ")".
\* ok: whether it matches; ref: group 2; len: the length of the match.
MatchUrlAt(s, at) ==
    IF ~startsWithAt(s, UrlOpen, at) THEN [ok |-> FALSE]
    ELSE MatchUrlQuoted(s, at,
             IF at + Len(UrlOpen) < Len(s) /\ s[at + Len(UrlOpen) + 1] \in {"'", "\""}
             THEN <<s[at + Len(UrlOpen) + 1]>> ELSE <<>>)

\* The replacement callback of both uses of the pattern: a reference that
\* starts with "data:" returns the match itself, any other the proxied form
UrlCallback(match, ref, targetOrigin) ==
    IF startsWith(ref, DataScheme) THEN match
    ELSE UrlOpen \o toProxiedPath(resolveUrl(targetOrigin, ref)) \o <<")">>

\* String.prototype.replace with the global url(...) pattern, from position at
RECURSIVE ReplaceUrls(_, _, _)
ReplaceMatch(s, at, m, targetOrigin) ==
    IF m.ok
    THEN UrlCallback(SubSeq(s, at + 1, at + m.len), m.ref, targetOrigin)
             \o ReplaceUrls(s, at + m.len, targetOrigin)
    ELSE <<s[at + 1]>> \o ReplaceUrls(s, at + 1, targetOrigin)

ReplaceUrls(s, at, targetOrigin) ==
    IF at >= Len(s) THEN <<>> ELSE ReplaceMatch(s, at, MatchUrlAt(s, at), targetOrigin)

\* rewriteCss: the text it returns for the CSS text it reads
rewriteCssText(cssText, targetOrigin) == ReplaceUrls(cssText, 0, targetOrigin)

---------------------------------------------------------------------------
(* Elements and the handlers of htmlRewriter                               *)
(* An element is [tag, attrs]: attrs maps the names of the attributes it   *)
(* carries to their values; tags, names and values are strings.            *)

TagA == <<"a">>
TagForm == <<"f", "o", "r", "m">>
TagIframe == <<"i", "f", "r", "a", "m", "e">>
TagImg == <<"i", "m", "g">>
TagSource == <<"s", "o", "u", "r", "c", "e">>
TagScript == <<"s", "c", "r", "i", "p", "t">>
TagLink == <<"l", "i", "n", "k">>
TagMeta == <<"m", "e", "t", "a">>
AttrHref == <<"h", "r", "e", "f">>
AttrSrc == <<"s", "r", "c">>
AttrAction == <<"a", "c", "t", "i", "o", "n">>
AttrTarget == <<"t", "a", "r", "g", "e", "t">>
AttrSrcset == <<"s", "r", "c", "s", "e", "t">>
AttrStyle == <<"s", "t", "y", "l", "e">>
AttrContent == <<"c", "o", "n", "t", "e", "n", "t">>
AttrHttpEquiv == <<"h", "t", "t", "p", "-", "e", "q", "u", "i", "v">>

hasAttribute(el, name) == name \in DOMAIN el.attrs

getAttribute(el, name) == el.attrs[name]

setAttribute(el, name, value) ==
    [tag |-> el.tag,
     attrs |-> [a \in (DOMAIN el.attrs) \cup {name} |-> IF a = name THEN value ELSE el.attrs[a]]]

\* The handlers that rewrite one URL attribute: 'tag[attr]'
UrlAttrHandler(el, tag, attr, targetOrigin) ==
    IF el.tag = tag /\ hasAttribute(el, attr) /\ getAttribute(el, attr) # <<>>
    THEN setAttribute(el, attr, toProxiedPath(resolveUrl(targetOrigin, getAttribute(el, attr))))
    ELSE el

\* 'form[action]': the action is rewritten and target forced to _self
Self == <<"_", "s", "e", "l", "f">>

FormHandler(el, targetOrigin) ==
    IF el.tag = TagForm /\ hasAttribute(el, AttrAction) /\ getAttribute(el, AttrAction) # <<>>
    THEN setAttribute(UrlAttrHandler(el, TagForm, AttrAction, targetOrigin), AttrTarget, Self)
    ELSE el

\* String.prototype.split(c) with a one-character separator
RECURSIVE Split(_, _)
Split(s, c) ==
    LET n == FirstOf(s, {c})
    IN  IF n = Len(s) THEN <<s>> ELSE <<SubSeq(s, 1, n)>> \o Split(slice(s, n + 1), c)

\* The first word of a text and, after the spaces that follow it, the second
FirstWord(t) == SubSeq(t, 1, FirstOf(t, {" "}))

SecondWord(t) == FirstWord(TrimLeft(slice(t, FirstOf(t, {" "}))))

SrcsetEntry(url, w, targetOrigin) ==
    toProxiedPath(resolveUrl(targetOrigin, url)) \o (IF w # <<>> THEN <<" ">> \o w ELSE <<>>)

SrcsetWords(t, targetOrigin) == SrcsetEntry(FirstWord(t), SecondWord(t), targetOrigin)

\* One entry of a srcset: [u, w] = part.trim().split(/\s+/), then the proxied
\* u followed by " " and w when w is not empty
SrcsetPart(part, targetOrigin) == SrcsetWords(trim(part), targetOrigin)

RECURSIVE JoinCommaSpace(_)
JoinCommaSpace(parts) ==
    IF Len(parts) = 1 THEN parts[1]
    ELSE parts[1] \o <<",", " ">> \o JoinCommaSpace(Tail(parts))

SrcsetParts(parts, targetOrigin) ==
    JoinCommaSpace([i \in 1..Len(parts) |-> SrcsetPart(parts[i], targetOrigin)])

\* 'img[srcset], source[srcset]'
SrcsetHandler(el, targetOrigin) ==
    IF el.tag \in {TagImg, TagSource} /\ hasAttribute(el, AttrSrcset) /\ getAttribute(el, AttrSrcset) # <<>>
    THEN setAttribute(el, AttrSrcset,
                      SrcsetParts(Split(getAttribute(el, AttrSrcset), ","), targetOrigin))
    ELSE el

\* '[style]'
StyleHandler(el, targetOrigin) ==
    IF hasAttribute(el, AttrStyle) /\ getAttribute(el, AttrStyle) # <<>>
    THEN setAttribute(el, AttrStyle, ReplaceUrls(getAttribute(el, AttrStyle), 0, targetOrigin))
    ELSE el

AttrValueRefresh == <<"r", "e", "f", "r", "e", "s", "h">>
UrlEq == <<"u", "r", "l", "=">>

Digits == {Ascii[i] : i \in 17..26}

RefreshGroup(s, key) ==
    IF startsWithAt(toLowerCase(s), UrlEq, key) /\ slice(s, key + Len(UrlEq)) # <<>>
    THEN [ok |-> TRUE, group |-> slice(s, key + Len(UrlEq))]
    ELSE [ok |-> FALSE]

RefreshAfterDigits(s, semi) ==
    IF startsWithAt(s, <<";">>, semi)
    THEN RefreshGroup(s, semi + 1 + FirstOf(slice(s, semi + 1), Chars \ {" "}))
    ELSE [ok |-> FALSE]

\* /\d+;\s*url=(.+)/i tried at the 0-based position at of s: a longest run of
\* digits, ";", any spaces, "url=" in any letter case, and the non-empty rest.
\* ok: whether it matches; group: group 1.
MatchRefreshAt(s, at) ==
    IF FirstOf(slice(s, at), Chars \ Digits) >= 1
    THEN RefreshAfterDigits(s, at + FirstOf(slice(s, at), Chars \ Digits))
    ELSE [ok |-> FALSE]

\* String.prototype.match with the refresh pattern: the leftmost match
MatchRefresh(s) ==
    IF \E at \in 0..Len(s) : MatchRefreshAt(s, at).ok
    THEN MatchRefreshAt(s, CHOOSE at \in 0..Len(s) :
                               /\ MatchRefreshAt(s, at).ok
                               /\ \A b \in 0..(at - 1) : ~MatchRefreshAt(s, b).ok)
    ELSE [ok |-> FALSE]

MetaReplace(el, content, match, targetOrigin) ==
    IF match.ok
    THEN setAttribute(el, AttrContent,
             replaceFirst(content, match.group,
                          toProxiedPath(resolveUrl(targetOrigin, match.group))))
    ELSE el

MetaContent(el, content, targetOrigin) ==
    MetaReplace(el, content, MatchRefresh(content), targetOrigin)

\* 'meta[http-equiv="refresh"]'
MetaHandler(el, targetOrigin) ==
    IF /\ el.tag = TagMeta /\ hasAttribute(el, AttrHttpEquiv)
       /\ getAttribute(el, AttrHttpEquiv) = AttrValueRefresh
       /\ hasAttribute(el, AttrContent) /\ getAttribute(el, AttrContent) # <<>>
    THEN MetaContent(el, getAttribute(el, AttrContent), targetOrigin)
    ELSE el

\* The handler registered with .on(selector, ...), applied to an element
Handler(selector, el, targetOrigin) ==
    CASE selector = "a[href]" -> UrlAttrHandler(el, TagA, AttrHref, targetOrigin)
      [] selector = "form[action]" -> FormHandler(el, targetOrigin)
      [] selector = "iframe[src]" -> UrlAttrHandler(el, TagIframe, AttrSrc, targetOrigin)
      [] selector = "img[src]" -> UrlAttrHandler(el, TagImg, AttrSrc, targetOrigin)
      [] selector = "img[srcset], source[srcset]" -> SrcsetHandler(el, targetOrigin)
      [] selector = "source[src]" -> UrlAttrHandler(el, TagSource, AttrSrc, targetOrigin)
      [] selector = "script[src]" -> UrlAttrHandler(el, TagScript, AttrSrc, targetOrigin)
      [] selector = "link[href]" -> UrlAttrHandler(el, TagLink, AttrHref, targetOrigin)
      [] selector = "[style]" -> StyleHandler(el, targetOrigin)
      [] selector = "meta[http-equiv=refresh]" -> MetaHandler(el, targetOrigin)

\* Every handler of a rewriter whose selector matches, in the order of
\* registration
RECURSIVE ApplyHandlers(_, _, _)
ApplyHandlers(selectors, el, targetOrigin) ==
    IF selectors = <<>> THEN el
    ELSE ApplyHandlers(Tail(selectors), Handler(Head(selectors), el, targetOrigin), targetOrigin)

\* htmlRewriter(targetOrigin) of worker.js applied to one element
htmlRewriterWorker(el, targetOrigin) ==
    ApplyHandlers(<<"a[href]", "form[action]", "iframe[src]", "img[src]",
                    "img[srcset], source[srcset]", "source[src]", "script[src]",
                    "link[href]", "[style]", "meta[http-equiv=refresh]">>,
                  el, targetOrigin)

\* htmlRewriter(targetOrigin) of part_000 applied to one element
htmlRewriterPart(el, targetOrigin) ==
    ApplyHandlers(<<"a[href]", "link[href]", "script[src]", "img[src]", "form[action]">>,
                  el, targetOrigin)

---------------------------------------------------------------------------
(* HTMLRewriter.transform on a body                                        *)
(* The platform's streaming parser, for the documents of the model: a body *)
(* that is one start tag "<tag name=value ...>" with unquoted values is    *)
(* one element; the handlers see it and it is written back with its        *)
(* attributes in their order, an attribute the handlers added last.  Any   *)
(* other body holds no element and passes through as it is.                *)

IsStartTag(body) ==
    /\ Len(body) >= 3
    /\ body[1] = "<" /\ body[Len(body)] = ">"
    /\ \A i \in 2..(Len(body) - 1) : body[i] \notin {"<", ">"}
    /\ body[2] # " "

TagWords(body) == Split(SubSeq(body, 2, Len(body) - 1), " ")

AttrName(word) == SubSeq(word, 1, FirstOf(word, {"="}))

AttrValue(word) == slice(word, FirstOf(word, {"="}) + 1)

ElementOf(words, names) ==
    [tag |-> words[1],
     attrs |-> [n \in names |->
                  AttrValue(words[CHOOSE i \in 2..Len(words) :
                                      /\ AttrName(words[i]) = n
                                      /\ \A j \in 2..(i - 1) : AttrName(words[j]) # n])]]

AttrNames(words) == [i \in 1..(Len(words) - 1) |-> AttrName(words[i + 1])]

ParseElement(body) ==
    ElementOf(TagWords(body), {AttrName(TagWords(body)[i]) : i \in 2..Len(TagWords(body))} \ {<<>>})

RECURSIVE WriteAttrs(_, _)
WriteAttrs(el, names) ==
    IF names = <<>> THEN <<>>
    ELSE <<" ">> \o Head(names) \o <<"=">> \o el.attrs[Head(names)] \o WriteAttrs(el, Tail(names))

RECURSIVE SetToSeq(_)
SetToSeq(S) == IF S = {} THEN <<>> ELSE LET x == CHOOSE x \in S : TRUE IN <<x>> \o SetToSeq(S \ {x})

\* The names of a tag's attributes in their order, each once
KeptNames(names) ==
    Concat([i \in 1..Len(names) |->
               IF names[i] # <<>> /\ \A j \in 1..(i - 1) : names[j] # names[i]
               THEN <<names[i]>> ELSE <<>>])

WriteElement(el, kept) ==
    <<"<">> \o el.tag
            \o WriteAttrs(el, kept \o SetToSeq(DOMAIN el.attrs \ {kept[i] : i \in 1..Len(kept)}))
            \o <<">">>

SerializeElement(el, body) == WriteElement(el, KeptNames(AttrNames(TagWords(body))))

\* htmlRewriter(targetOrigin).transform(upstream).body in worker.js
transformWorker(body, targetOrigin) ==
    IF IsStartTag(body)
    THEN SerializeElement(htmlRewriterWorker(ParseElement(body), targetOrigin), body)
    ELSE body

\* htmlRewriter(targetOrigin).transform(resp).body in part_000
transformPart(body, targetOrigin) ==
    IF IsStartTag(body)
    THEN SerializeElement(htmlRewriterPart(ParseElement(body), targetOrigin), body)
    ELSE body

---------------------------------------------------------------------------
(* Headers and responses                                                   *)
(* A header set maps lower-case header names to values.  The value of      *)
(* content-type is a string of characters, because the program searches    *)
(* it; the other values are opaque.                                        *)

TextHtml == <<"t", "e", "x", "t", "/", "h", "t", "m", "l">>
TextCss == <<"t", "e", "x", "t", "/", "c", "s", "s">>
HtmlUtf8 == <<"t", "e", "x", "t", "/", "h", "t", "m", "l", ";", " ", "c", "h", "a", "r", "s", "e", "t", "=", "u", "t", "f", "-", "8">>
CssUtf8 == <<"t", "e", "x", "t", "/", "c", "s", "s", ";", " ", "c", "h", "a", "r", "s", "e", "t", "=", "u", "t", "f", "-", "8">>
TextPlain == <<"t", "e", "x", "t", "/", "p", "l", "a", "i", "n", ";", "c", "h", "a", "r", "s", "e", "t", "=", "U", "T", "F", "-", "8">>
AllowMethods == "GET,POST,PUT,PATCH,DELETE,OPTIONS"

HeadersHas(h, name) == name \in DOMAIN h

\* Headers.prototype.get(name) || ''
HeadersGetOrEmpty(h, name) == IF name \in DOMAIN h THEN h[name] ELSE <<>>

HeadersSet(h, name, value) ==
    [n \in (DOMAIN h) \cup {name} |-> IF n = name THEN value ELSE h[n]]

HeadersDelete(h, name) == [n \in (DOMAIN h) \ {name} |-> h[n]]

NoHeaders == [n \in {} |-> <<>>]

\* One statement on a header set: h.delete(name), h.set(name, value), or
\* if (h.has(name)) h.delete(name)
HeaderEdit(h, e) ==
    CASE e[1] = "delete" -> HeadersDelete(h, e[2])
      [] e[1] = "set" -> HeadersSet(h, e[2], e[3])
      [] e[1] = "delete if has" -> IF HeadersHas(h, e[2]) THEN HeadersDelete(h, e[2]) ELSE h

RECURSIVE HeaderEdits(_, _)
HeaderEdits(h, edits) ==
    IF edits = <<>> THEN h ELSE HeaderEdits(HeaderEdit(h, Head(edits)), Tail(edits))

\* worker.js: sanitizeHeadersInPlace(h); the header set h holds afterwards
sanitizeHeadersInPlace(h) ==
    HeaderEdits(h, << <<"delete", "content-security-policy">>,
                      <<"delete", "content-security-policy-report-only">>,
                      <<"delete", "x-frame-options">>,
                      <<"set", "access-control-allow-origin", "*">>,
                      <<"set", "access-control-allow-headers", "*">>,
                      <<"set", "access-control-allow-methods", AllowMethods>> >>)

\* if (contentTypeIsHtml) { ct = h.get('content-type') || 'text/html; charset=utf-8';
\*                          if (!/text\/html/i.test(ct)) h.set('content-type', ...) }
EnsureHtmlType(h, contentTypeIsHtml) ==
    IF /\ contentTypeIsHtml
       /\ ~includes(toLowerCase(IF HeadersHas(h, "content-type") /\ h["content-type"] # <<>>
                                THEN h["content-type"] ELSE HtmlUtf8), TextHtml)
    THEN HeadersSet(h, "content-type", HtmlUtf8)
    ELSE h

\* part_000: sanitizeHeaders(headers, contentTypeIsHtml)
sanitizeHeaders(headers, contentTypeIsHtml) ==
    EnsureHtmlType(
        HeaderEdits(headers,
            << <<"delete if has", "content-security-policy">>,
               <<"delete if has", "content-security-policy-report-only">>,
               <<"set", "access-control-allow-origin", "*">>,
               <<"set", "access-control-allow-headers", "*">>,
               <<"set", "access-control-allow-methods", AllowMethods>>,
               <<"delete if has", "x-frame-options">>,
               <<"delete if has", "x-content-type-options">> >>),
        contentTypeIsHtml)

NullBodyStatus == {101, 204, 205, 304}

\* new Response(body, {status, headers}): RangeError for a status outside
\* 200..599, TypeError for a body with a null-body status.  relayed marks a
\* response built from the upstream one.
NewResponse(body, status, headers, relayed) ==
    IF status < 200 \/ status > 599 THEN [state |-> "threw", error |-> "RangeError"]
    ELSE IF status \in NullBodyStatus /\ body # <<>>
    THEN [state |-> "threw", error |-> "TypeError"]
    ELSE [state |-> "response", status |-> status, headers |-> headers,
          body |-> body, relayed |-> relayed]

\* new Response(text, {status}): a plain-text response of the program itself
TextResponse(text, status) ==
    NewResponse(text, status, [n \in {"content-type"} |-> TextPlain], FALSE)

\* rewriteCss answering 200 whatever the upstream status is
rewriteCssStatus200(resp, targetOrigin) ==
    NewResponse(rewriteCssText(resp.body, targetOrigin), 200,
                sanitizeHeadersInPlace(HeadersSet(resp.headers, "content-type", CssUtf8)),
                TRUE)

\* worker.js: the Response rewriteCss(resp, targetOrigin) resolves to
rewriteCss(resp, targetOrigin) ==
    NewResponse(rewriteCssText(resp.body, targetOrigin), resp.status,
                sanitizeHeadersInPlace(HeadersSet(resp.headers, "content-type", CssUtf8)),
                TRUE)

---------------------------------------------------------------------------
(* The requests and the transport's answers                                *)

Variants == {"worker", "part_000", "index"}

RequestUrls ==
    { <<"h", "t", "t", "p", ":", "/", "/", "p", "/">>,
      <<"h", "t", "t", "p", ":", "/", "/", "p", "/", "x">>,
      <<"h", "t", "t", "p", ":", "/", "/", "p", "/", "s", "e", "r", "v", "i", "c", "e", "/">>,
      <<"h", "t", "t", "p", ":", "/", "/", "p", "/", "s", "e", "r", "v", "i", "c", "e", "/", "%">>,
      <<"h", "t", "t", "p", ":", "/", "/", "p", "/", "s", "e", "r", "v", "i", "c", "e", "/", "h", "t", "t", "p", "%", "3", "A", "%", "2", "F", "%", "2", "F", "e", "%", "2", "F">>,
      <<"h", "t", "t", "p", ":", "/", "/", "p", "/", "s", "e", "r", "v", "i", "c", "e", "/", "h", "t", "t", "p", "%", "3", "A", "%", "2", "F", "%", "2", "F", "p", "%", "2", "F", "x">>,
      <<"h", "t", "t", "p", ":", "/", "/", "p", "/", "s", "e", "r", "v", "i", "c", "e", "/", "h", "t", "t", "p", "%", "3", "A", "%", "2", "F", "%", "2", "F", "p", "q", "%", "2", "F">>,
      <<"h", "t", "t", "p", ":", "/", "/", "p", "/", "s", "e", "r", "v", "i", "c", "e", "/", "H", "T", "T", "P", "%", "3", "A", "%", "2", "F", "%", "2", "F", "p", "%", "2", "F", "x">>,
      <<"h", "t", "t", "p", ":", "/", "/", "p", "/", "s", "e", "r", "v", "i", "c", "e", "/", "e">> }

Requests ==
    { [url |-> r, method |-> m, headers |-> "request headers",
       body |-> IF m = "POST" THEN "request body" ELSE "null"] :
      r \in RequestUrls, m \in {"GET", "POST"} }

ContentTypes ==
    { TextHtml, <<"T", "e", "x", "t", "/", "H", "T", "M", "L", ";", "x">>, TextCss, <<"a", "/", "b", ";", "t", "e", "x", "t", "/", "h", "t", "m", "l">>, <<"a", "/", "b">> }

OtherHeaders ==
    { "content-security-policy", "content-security-policy-report-only",
      "x-frame-options", "x-content-type-options", "cache-control" }

UpstreamHeaders ==
    { [n \in names \cup cts |-> IF n = "content-type" THEN ct ELSE "upstream value"] :
      names \in SUBSET OtherHeaders, cts \in {{}, {"content-type"}}, ct \in ContentTypes }

Bodies == { <<"<", "a", " ", "h", "r", "e", "f", "=", "/", "x", ">">>, <<"u", "r", "l", "(", "/", "x", ")">> }

UpstreamStatuses == {200, 404}

\* What fetch can resolve to: a readable response, with an empty body when
\* the status is 304, or an opaque one (status 0, no headers, no body)
UpstreamResponses ==
    { [state |-> "response", type |-> "basic", status |-> st, headers |-> h, body |-> b] :
        st \in UpstreamStatuses, h \in UpstreamHeaders, b \in Bodies }
    \cup
    { [state |-> "response", type |-> "basic", status |-> 304, headers |-> h, body |-> <<>>] :
        h \in UpstreamHeaders }
    \cup
    { [state |-> "response", type |-> "opaque", status |-> 0, headers |-> NoHeaders,
       body |-> <<>>] }

FetchErrors == {"TypeError: Invalid URL", "Error: Network connection lost."}

\* fetch(target, init) can resolve only for an absolute http(s) URL
IsFetchable(t) ==
    LET url == ParseUrl(t, TypeError) IN url.ok /\ url.special

NoResponse == [state |-> "none"]

---------------------------------------------------------------------------
(* The handlers                                                            *)

\* const init = {method, headers}; init.body = request.body unless GET or HEAD
FetchInit(t) ==
    [url |-> t, method |-> request.method, headers |-> request.headers,
     body |-> IF request.method # "GET" /\ request.method # "HEAD"
              THEN request.body ELSE "undefined"]

Return(r) ==
    /\ response' = r
    /\ pc' = "done"

\* worker.js fetch(request), up to its first await
WorkerStart ==
    /\ variant = "worker" /\ pc = "start"
    /\ LET url     == ParseUrl(request.url, TypeError)
           encoded == slice(url.pathname, Len(ROUTE_PREFIX))
           decoded == decodeURIComponent(encoded)
       IN  IF ~startsWith(url.pathname, ROUTE_PREFIX)
           THEN /\ Return(TextResponse(<<"Boat Proxy Worker ready. Use /service/<encodedURL>">>, 200))
                /\ UNCHANGED <<target, fetches>>
           ELSE IF encoded = <<>>
           THEN /\ Return(TextResponse(<<"Missing encoded URL">>, 400))
                /\ UNCHANGED <<target, fetches>>
           ELSE IF decoded[1] # "ok"
           THEN /\ Return(TextResponse(<<"Bad encoded URL">>, 400))
                /\ UNCHANGED <<target, fetches>>
           ELSE IF startsWith(decoded[2], OriginOf(url))
           THEN /\ Return(TextResponse(<<"Refusing to proxy worker origin">>, 400))
                /\ target' = decoded[2]
                /\ UNCHANGED fetches
           ELSE /\ target' = decoded[2]
                /\ fetches' = Append(fetches, FetchInit(decoded[2]))
                /\ pc' = "fetch"
                /\ UNCHANGED response
    /\ UNCHANGED <<variant, request, upstream, u, link, doc, out>>

\* worker.js fetch(request), from the settled fetch on
WorkerRespond ==
    /\ variant = "worker" /\ pc = "fetched"
    /\ IF upstream.state = "error"
       THEN Return(TextResponse(<<"Upstream fetch error: ", upstream.error>>, 502))
       ELSE LET ct      == HeadersGetOrEmpty(upstream.headers, "content-type")
                lowerCT == toLowerCase(ct)
                headers == sanitizeHeadersInPlace(upstream.headers)
                base    == Href(ParseUrl(target, TypeError))
            IN  IF includes(lowerCT, TextHtml)
                THEN Return(NewResponse(transformWorker(upstream.body, base), upstream.status,
                                        HeadersSet(headers, "content-type", HtmlUtf8), TRUE))
                ELSE IF includes(lowerCT, TextCss)
                THEN /\ pc' = "css"
                     /\ UNCHANGED response
                ELSE Return(NewResponse(upstream.body, upstream.status, headers, TRUE))
    /\ UNCHANGED <<variant, request, target, fetches, upstream, u, link, doc, out>>

\* worker.js rewriteCss, from the settled resp.text() on
WorkerCss ==
    /\ variant = "worker" /\ pc = "css"
    /\ Return(rewriteCss(upstream, Href(ParseUrl(target, TypeError))))
    /\ UNCHANGED <<variant, request, target, fetches, upstream, u, link, doc, out>>

\* part_000 fetch(request), up to its await
PartStart ==
    /\ variant = "part_000" /\ pc = "start"
    /\ LET url     == ParseUrl(request.url, TypeError)
           encoded == slice(url.pathname, Len(ROUTE_PREFIX))
           decoded == decodeURIComponent(encoded)
       IN  IF url.pathname = <<"/">> \/ url.pathname = <<>>
           THEN /\ Return(TextResponse(<<"Ultraviolet-style Worker: use /service/<encodedURL>">>, 200))
                /\ UNCHANGED <<target, fetches>>
           ELSE IF ~startsWith(url.pathname, ROUTE_PREFIX)
           THEN /\ Return(TextResponse(<<"Not found. Use /service/<encodedURL>">>, 404))
                /\ UNCHANGED <<target, fetches>>
           ELSE IF encoded = <<>>
           THEN /\ Return(TextResponse(<<"Missing encoded URL">>, 400))
                /\ UNCHANGED <<target, fetches>>
           ELSE IF decoded[1] # "ok"
           THEN /\ Return(TextResponse(<<"Bad encoded URL">>, 400))
                /\ UNCHANGED <<target, fetches>>
           ELSE IF startsWith(decoded[2], OriginOf(url))
           THEN /\ Return(TextResponse(<<"Refusing to proxy this origin">>, 400))
                /\ target' = decoded[2]
                /\ UNCHANGED fetches
           ELSE /\ target' = decoded[2]
                /\ fetches' = Append(fetches, FetchInit(decoded[2]))
                /\ pc' = "fetch"
                /\ UNCHANGED response
    /\ UNCHANGED <<variant, request, upstream, u, link, doc, out>>

\* part_000 fetch(request), from the settled fetch on
PartRespond ==
    /\ variant = "part_000" /\ pc = "fetched"
    /\ IF upstream.state = "error"
       THEN Return(TextResponse(<<"Upstream fetch error: ", upstream.error>>, 502))
       ELSE IF upstream.type = "opaque"
       THEN Return(TextResponse(<<"Opaque upstream response; try a different site">>, 502))
       ELSE LET ct          == HeadersGetOrEmpty(upstream.headers, "content-type")
                isHtml      == includes(toLowerCase(ct), TextHtml)
                safeHeaders == sanitizeHeaders(upstream.headers, isHtml)
            IN  IF isHtml
                THEN Return(NewResponse(
                         transformPart(upstream.body, Href(ParseUrl(target, TypeError))),
                         upstream.status, safeHeaders, TRUE))
                ELSE Return(NewResponse(upstream.body, upstream.status, safeHeaders, TRUE))
    /\ UNCHANGED <<variant, request, target, fetches, upstream, u, link, doc, out>>

\* index.js fetch(request), up to its await: decodeURIComponent is outside
\* the try, so a URIError leaves the handler
IndexStart ==
    /\ variant = "index" /\ pc = "start"
    /\ LET url     == ParseUrl(request.url, TypeError)
           decoded == decodeURIComponent(replaceFirst(url.pathname, ROUTE_PREFIX, <<>>))
       IN  IF ~startsWith(url.pathname, ROUTE_PREFIX)
           THEN /\ Return(TextResponse(<<"Ultraviolet Worker running. Use /service/<url>">>, 200))
                /\ UNCHANGED <<target, fetches>>
           ELSE IF decoded[1] # "ok"
           THEN /\ Return([state |-> "threw", error |-> "URIError"])
                /\ UNCHANGED <<target, fetches>>
           ELSE /\ target' = decoded[2]
                /\ fetches' = Append(fetches, FetchInit(decoded[2]))
                /\ pc' = "fetch"
                /\ UNCHANGED response
    /\ UNCHANGED <<variant, request, upstream, u, link, doc, out>>

\* index.js fetch(request), from the settled fetch on: the upstream response
\* itself is returned
IndexRespond ==
    /\ variant = "index" /\ pc = "fetched"
    /\ IF upstream.state = "error"
       THEN Return(TextResponse(<<"Error fetching target: ", upstream.error>>, 500))
       ELSE Return([state |-> "response", status |-> upstream.status,
                    headers |-> upstream.headers, body |-> upstream.body, relayed |-> TRUE])
    /\ UNCHANGED <<variant, request, target, fetches, upstream, u, link, doc, out>>

\* The transport settles the outbound fetch with a response
FetchResolves ==
    /\ pc = "fetch"
    /\ IsFetchable(target)
    /\ \E r \in UpstreamResponses : upstream' = r
    /\ pc' = "fetched"
    /\ UNCHANGED <<variant, request, target, fetches, response, u, link, doc, out>>

\* The transport fails: fetch throws
FetchRejects ==
    /\ pc = "fetch"
    /\ \E e \in FetchErrors : upstream' = [state |-> "error", error |-> e]
    /\ pc' = "fetched"
    /\ UNCHANGED <<variant, request, target, fetches, response, u, link, doc, out>>

Init ==
    /\ variant \in Variants
    /\ request \in Requests
    /\ pc = "start"
    /\ target = None
    /\ fetches = <<>>
    /\ upstream = NoResponse
    /\ response = NoResponse
    /\ u = None /\ link = None /\ doc = None /\ out = None

Next ==
    \/ WorkerStart
    \/ WorkerRespond
    \/ WorkerCss
    \/ PartStart
    \/ PartRespond
    \/ IndexStart
    \/ IndexRespond
    \/ FetchResolves
    \/ FetchRejects

Spec == Init /\ [][Next]_vars

---------------------------------------------------------------------------
(* Properties of the dispatchers                                           *)

ProxyUrl == ParseUrl(request.url, TypeError)

TargetUrl == ParseUrl(target, TypeError)

UpstreamContentType == toLowerCase(HeadersGetOrEmpty(upstream.headers, "content-type"))

Settled == pc = "done" /\ upstream.state = "response"

Answered == pc = "done" /\ response.state = "response"

SameOrigin == target # None /\ TargetUrl.ok /\ OriginOf(TargetUrl) = OriginOf(ProxyUrl)

Refusals == {<<"Refusing to proxy worker origin">>, <<"Refusing to proxy this origin">>}

\* C1: a request whose decoded target has the origin of the proxy's own URL is
\* answered 400 and no outbound fetch is issued for it; and the refusal is
\* given only when the origins are equal.
C1_SelfOriginRefused ==
    /\ SameOrigin => fetches = <<>> /\ (pc = "done" => Answered /\ response.status = 400)
    /\ Answered /\ response.body \in Refusals => SameOrigin

\* C2: when the outbound fetch to a valid target throws, the answer is 502 and
\* its body holds the text of the error.
C2_TransportFailure502 ==
    pc = "done" /\ upstream.state = "error" /\ IsFetchable(target) =>
        /\ Answered
        /\ response.status = 502
        /\ \E i \in 1..Len(response.body) : response.body[i] = upstream.error

\* C3: when the outbound fetch resolved with a response that is not opaque,
\* the status of the answer is the status of the upstream response, on the
\* HTML, the CSS and the pass-through path.
C3_StatusPropagated ==
    Settled /\ upstream.type # "opaque" =>
        Answered /\ response.status = upstream.status

\* C3 witness: the CSS path of worker.js answered a 404 upstream response
C3_Witness ==
    /\ Settled /\ variant = "worker" /\ upstream.status = 404
    /\ includes(UpstreamContentType, TextCss) /\ ~includes(UpstreamContentType, TextHtml)
    /\ Answered /\ response.status = 404

SanitizedHeaders(h) ==
    /\ "content-security-policy" \notin DOMAIN h
    /\ "x-frame-options" \notin DOMAIN h
    /\ "access-control-allow-origin" \in DOMAIN h /\ h["access-control-allow-origin"] = "*"

\* C4: in the dispatchers that classify the upstream response, a content-type
\* beginning with text/html sends the body through the markup rewriter, one
\* beginning with text/css through the CSS rewriter, and any other leaves the
\* body as it is, with sanitized headers.
C4_RoutedByContentType ==
    Settled /\ variant \in {"worker", "part_000"} /\ upstream.type # "opaque" /\ Answered =>
        IF startsWith(UpstreamContentType, TextHtml)
        THEN response.body = IF variant = "worker"
                             THEN transformWorker(upstream.body, Href(TargetUrl))
                             ELSE transformPart(upstream.body, Href(TargetUrl))
        ELSE IF startsWith(UpstreamContentType, TextCss)
        THEN response.body = rewriteCssText(upstream.body, Href(TargetUrl))
        ELSE response.body = upstream.body /\ SanitizedHeaders(response.headers)

\* C5: when the outbound fetch resolved with an opaque response, the answer is
\* 502 and the upstream response is not relayed.
C5_OpaqueAnswered502 ==
    Settled /\ upstream.type = "opaque" =>
        Answered /\ response.status = 502 /\ ~response.relayed

\* C6: the headers of a relayed response never hold content-security-policy
\* or x-frame-options.
C6_NoCspNoFrameOptions ==
    Answered /\ response.relayed =>
        /\ "content-security-policy" \notin DOMAIN response.headers
        /\ "x-frame-options" \notin DOMAIN response.headers

EditedHeaders ==
    { "content-security-policy", "content-security-policy-report-only", "x-frame-options",
      "x-content-type-options", "access-control-allow-origin",
      "access-control-allow-headers", "access-control-allow-methods" }

SameHeader(name) ==
    /\ name \in DOMAIN upstream.headers <=> name \in DOMAIN response.headers
    /\ name \in DOMAIN upstream.headers => response.headers[name] = upstream.headers[name]

\* C7: the headers of a relayed response differ from the upstream ones only in
\* the enumerated headers; content-type is overwritten, with text/html;
\* charset=utf-8, only when the body is served as HTML and the upstream
\* content-type does not indicate HTML, and keeps its upstream value otherwise.
C7_OnlyEnumeratedEdits ==
    Answered /\ response.relayed /\ upstream.type # "opaque" =>
        /\ \A name \in ((DOMAIN upstream.headers) \cup (DOMAIN response.headers))
                          \ (EditedHeaders \cup {"content-type"}) : SameHeader(name)
        /\ \/ SameHeader("content-type")
           \/ /\ ~includes(UpstreamContentType, TextHtml)
              /\ response.body # upstream.body
              /\ response.headers["content-type"] = HtmlUtf8

---------------------------------------------------------------------------
(* The codec round trip: a link is written for an absolute URL u and the   *)
(* request for that link is served                                         *)

MaxTail == 3

TailChars == {"/", "%", "2", "F", "?", "a", "+", "#"}

RECURSIVE Texts(_, _)
Texts(cs, n) ==
    IF n = 0 THEN {<<>>}
    ELSE Texts(cs, n - 1) \cup {Append(t, c) : t \in Texts(cs, n - 1), c \in cs}

\* The absolute URLs of the round trip: http://e/ and a tail of path, query
\* and fragment characters
AbsoluteUrls == {<<"h", "t", "t", "p", ":", "/", "/", "e", "/">> \o t : t \in Texts(TailChars, MaxTail)}

ProxyOrigin == <<"h", "t", "t", "p", ":", "/", "/", "p">>

InitCodec ==
    /\ variant \in Variants
    /\ u \in AbsoluteUrls
    /\ link = None
    /\ pc = "encode"
    /\ request = None
    /\ target = None
    /\ fetches = <<>>
    /\ upstream = NoResponse
    /\ response = NoResponse
    /\ doc = None /\ out = None

\* A rewriter handler writes the proxied path of u into the document
WriteLink ==
    /\ pc = "encode"
    /\ link' = toProxiedPath(u)
    /\ pc' = "written"
    /\ UNCHANGED <<variant, request, target, fetches, upstream, response, u, doc, out>>

\* The client follows the link: a GET request for it reaches the worker
FollowLink ==
    /\ pc = "written"
    /\ request' = [url |-> ProxyOrigin \o link, method |-> "GET",
                   headers |-> "request headers", body |-> "null"]
    /\ pc' = "start"
    /\ UNCHANGED <<variant, target, fetches, upstream, response, u, link, doc, out>>

NextCodec ==
    \/ WriteLink
    \/ FollowLink
    \/ WorkerStart
    \/ PartStart
    \/ IndexStart

SpecCodec == InitCodec /\ [][NextCodec]_vars

\* C8: the target decoded from the request for the link written by
\* toProxiedPath(u) is u itself, and it is the URL that is fetched.
C8_RoundTrip ==
    pc \in {"fetch", "done"} =>
        /\ target = u
        /\ pc = "fetch" /\ Len(fetches) = 1 /\ fetches[1].url = u

\* C8 witness: a URL that holds an escape of its own was written, requested,
\* decoded and fetched by worker.js
C8_Witness ==
    /\ variant = "worker" /\ pc = "fetch"
    /\ u = <<"h", "t", "t", "p", ":", "/", "/", "e", "/", "%", "2", "F">>
    /\ link = <<"/", "s", "e", "r", "v", "i", "c", "e", "/", "h", "t", "t", "p", "%", "3", "A", "%", "2", "F", "%", "2", "F", "e", "%", "2", "F", "%", "2", "5", "2", "F">>
    /\ target = u

---------------------------------------------------------------------------
(* The rewriters of worker.js on one url(...) reference or one refresh     *)

Spaces == {<<>>, <<" ">>}

UrlDocs ==
    { [kind |-> k, base |-> <<"h", "t", "t", "p", ":", "/", "/", "e", "/", "d", "/", "i">>, pre |-> pre, open |-> ws1, quote |-> q,
       ref |-> ref, close |-> ws2, post |-> post] :
      k \in {"style", "css"}, pre \in {<<>>, <<"a", ":">>}, ws1 \in Spaces, q \in {<<>>, <<"'">>, <<"\"">>},
      ref \in {<<"d", "a", "t", "a", ":", "x">>, <<"D", "A", "T", "A", ":", "x">>, <<"x", ".", "p", "n", "g">>, <<"/", "x">>, <<"h", "t", "t", "p", ":", "/", "/", "q", "/", "x">>},
      ws2 \in Spaces, post \in {<<>>, <<";">>} }

MetaDocs ==
    { [kind |-> "meta", base |-> <<"h", "t", "t", "p", ":", "/", "/", "e", "/", "d", "/", "i">>, matches |-> TRUE, delay |-> d, sep |-> sep,
       key |-> key, ref |-> ref] :
      d \in {<<"0">>, <<"5">>, <<"1", "0">>}, sep \in {<<";">>, <<";", " ">>}, key \in {<<"u", "r", "l", "=">>, <<"U", "R", "L", "=">>},
      ref \in {<<"/", "x">>, <<"5">>, <<"l">>, <<"h", "t", "t", "p", ":", "/", "/", "q", "/">>} }
    \cup
    { [kind |-> "meta", base |-> <<"h", "t", "t", "p", ":", "/", "/", "e", "/", "d", "/", "i">>, matches |-> FALSE, text |-> t] :
      t \in {<<"5">>, <<"5", ";", " ", "/", "x">>, <<"u", "r", "l", "=", "/", "x">>, <<"x", ";", " ", "u", "r", "l", "=", "/", "x">>} }

\* The text of the style attribute, the CSS body or the content attribute
DocText(d) ==
    IF d.kind = "meta"
    THEN (IF d.matches THEN d.delay \o d.sep \o d.key \o d.ref ELSE d.text)
    ELSE d.pre \o UrlOpen \o d.open \o d.quote \o d.ref \o d.quote \o d.close \o <<")">> \o d.post

InitRewrite ==
    /\ doc \in UrlDocs \cup MetaDocs
    /\ out = None
    /\ pc = "rewrite"
    /\ variant = "worker"
    /\ request = None
    /\ target = None
    /\ fetches = <<>>
    /\ upstream = NoResponse
    /\ response = NoResponse
    /\ u = None /\ link = None

OneAttribute(name, value) == [n \in {name} |-> value]

\* htmlRewriter of worker.js meets an element with the style attribute
RewriteStyle ==
    /\ pc = "rewrite" /\ doc.kind = "style"
    /\ out' = getAttribute(htmlRewriterWorker([tag |-> <<"p">>,
                                               attrs |-> OneAttribute(AttrStyle, DocText(doc))],
                                              doc.base), AttrStyle)
    /\ pc' = "rewritten"
    /\ UNCHANGED <<variant, request, target, fetches, upstream, response, u, link, doc>>

\* rewriteCss of worker.js rewrites a CSS body
RewriteCssBody ==
    /\ pc = "rewrite" /\ doc.kind = "css"
    /\ out' = rewriteCssText(DocText(doc), doc.base)
    /\ pc' = "rewritten"
    /\ UNCHANGED <<variant, request, target, fetches, upstream, response, u, link, doc>>

\* htmlRewriter of worker.js meets a meta http-equiv=refresh element
RewriteMeta ==
    /\ pc = "rewrite" /\ doc.kind = "meta"
    /\ out' = getAttribute(
                  htmlRewriterWorker(
                      [tag |-> TagMeta,
                       attrs |-> [n \in {AttrHttpEquiv, AttrContent} |->
                                    IF n = AttrContent THEN DocText(doc) ELSE AttrValueRefresh]],
                      doc.base), AttrContent)
    /\ pc' = "rewritten"
    /\ UNCHANGED <<variant, request, target, fetches, upstream, response, u, link, doc>>

NextRewrite ==
    \/ RewriteStyle
    \/ RewriteCssBody
    \/ RewriteMeta

SpecRewrite == InitRewrite /\ [][NextRewrite]_vars

Proxied(d) == toProxiedPath(resolveUrl(d.base, d.ref))

\* C9: a url(...) whose reference is a data: URI, in any letter case, quoted
\* or not, with or without spaces inside the parentheses, comes out as it went
\* in; any other reference (written without spaces) is replaced by its
\* proxied form.
C9_DataUrisKept ==
    pc = "rewritten" /\ doc.kind \in {"style", "css"} =>
        IF startsWith(toLowerCase(doc.ref), DataScheme)
        THEN out = DocText(doc)
        ELSE doc.open = <<>> /\ doc.close = <<>> =>
                 out = doc.pre \o UrlOpen \o Proxied(doc) \o <<")">> \o doc.post

\* C10: a content attribute of the form "<seconds>; url=<target>" comes out
\* with only the target replaced by its proxied form, also when the text of
\* the target occurs earlier in the content; any other content is unchanged.
C10_OnlyTargetReplaced ==
    pc = "rewritten" /\ doc.kind = "meta" =>
        out = IF doc.matches
              THEN doc.delay \o doc.sep \o doc.key \o Proxied(doc)
              ELSE DocText(doc)

=============================================================================
